---- MODULE Spec2Model ----
(***************************************************************************)
(* Model of the app-name resolver (appstore_resolver.py): candidate        *)
(* aggregation over countries, score_candidate, pick_winner, and the       *)
(* dedup ledger / canonicalization loop of main.                           *)
(*                                                                         *)
(* Representation.  A Python str is a sequence of one-character strings;   *)
(* None is the one-element sequence None (its element is no character).    *)
(* A trackId is a natural number, 0 standing for a missing/falsy id.       *)
(* Genre names are atomic strings (the code only tests set membership).    *)
(* Scores are the integer values of the code's floats.  The rapidfuzz      *)
(* ratios are not code of this program: they are the oracle functions wr   *)
(* (WRatio) and pr (partial_ratio), fixed when a run starts.               *)
(***************************************************************************)
EXTENDS Integers, Sequences, FiniteSets, TLC

VARIABLES
  args,                \* main: the parsed command line (inputs and --lang-map)
  lang_map,            \* main: country code to language code
  rows,                \* main: the loaded input rows (queries)
  match_mode,          \* args.match_mode, as the set of its entries
  min_score,           \* args.min_score
  min_gap,             \* args.min_gap
  wr,                  \* oracle: fuzz.WRatio, a function of <<a, b>>
  pr,                  \* oracle: fuzz.partial_ratio, a function of <<a, b>>
  qi,                  \* main: index of the row being resolved
  pc,                  \* position in main (or in the function under test)
  ci,                  \* index of the country of the current loop
  candidates_by_id,    \* main: insertion-ordered dict, as a sequence of records
  scored,              \* list of <<rec, total, details>>
  winner,              \* pick_winner's first result (NoWinner for None)
  ranked,              \* pick_winner's second result
  existing_track_ids,  \* main: the ledger
  final,               \* main: record used for the confirmed row
  master_rows,         \* main: confirmed ledger table
  needs_review_rows,   \* main: review queue
  cand_rows,           \* main: full audit
  written,             \* main: the output tables written so far
  results,             \* main: what each search of this query returned so far
  looked,              \* main: what each lookup of this query returned so far
  failed,              \* main: the countries (by index) whose search of this query raised
  paced,               \* main: time.sleep has run since the last search or lookup call
  call                 \* inputs of the function under test (pure-function specs)

cfgVars == <<args, lang_map, rows, match_mode, min_score, min_gap, wr, pr>>
runVars == <<qi, ci, candidates_by_id, existing_track_ids, final,
             master_rows, needs_review_rows, cand_rows, written, results, looked,
             failed, paced>>
vars == <<args, lang_map, rows, match_mode, min_score, min_gap, wr, pr, qi, pc, ci,
          candidates_by_id, scored, winner, ranked, existing_track_ids, final,
          master_rows, needs_review_rows, cand_rows, written, results, looked,
          failed, paced, call>>

-----------------------------------------------------------------------------
(* Bounds *)

\* longest candidate name drawn for score_candidate
MaxLen == 2

\* longest scored list ranked and cut to the review queue's five
MaxRanked == 6

\* number of input rows (queries) of a resolver run
MaxQueries == 2

-----------------------------------------------------------------------------
(* Python values *)

None == <<"None">>
NoGenre == "<None>"
NoWinner == <<>>

Truthy(s) == s # None /\ s # <<>>
OrEmpty(s) == IF Truthy(s) THEN s ELSE <<>>

Whitespace == {" ", "\t", "\n"}
UpperToLower == [A |-> "a", B |-> "b", C |-> "c", D |-> "d", L |-> "l",
                 P |-> "p", T |-> "t", X |-> "x"]

LowerChar(c) == IF c \in DOMAIN UpperToLower THEN UpperToLower[c] ELSE c

lower(s) == [i \in 1..Len(s) |-> LowerChar(s[i])]

RECURSIVE lstrip(_)
lstrip(s) == IF s # <<>> /\ Head(s) \in Whitespace THEN lstrip(Tail(s)) ELSE s

RECURSIVE rstrip(_)
rstrip(s) == IF s # <<>> /\ s[Len(s)] \in Whitespace
             THEN rstrip(SubSeq(s, 1, Len(s) - 1)) ELSE s

strip(s) == rstrip(lstrip(s))

norm(s) == lower(strip(OrEmpty(s)))

\* t.startswith(p)
startswith(t, p) == Len(p) <= Len(t) /\ SubSeq(t, 1, Len(p)) = p

\* p in t
contains(p, t) ==
  \E i \in 0..(Len(t) - Len(p)) : SubSeq(t, i + 1, i + Len(p)) = p

Max(S) == CHOOSE m \in S : \A n \in S : n <= m

Range(f) == {f[i] : i \in DOMAIN f}

Modes == {"exact", "startswith", "contains", "fuzzy"}
HEALTHY_GENRES == {"Health & Fitness", "Medical"}

WRatio(a, b) == wr[<<a, b>>]
partial_ratio(a, b) == pr[<<a, b>>]

-----------------------------------------------------------------------------
(* score_candidate *)

\* [norm(a) for a in aliases if a]
NormAliases(aliases) ==
  LET kept == SelectSeq(aliases, Truthy)
  IN  [i \in 1..Len(kept) |-> norm(kept[i])]

SellerOf(cand) ==
  IF Truthy(cand.sellerName) THEN cand.sellerName ELSE OrEmpty(cand.artistName)

\* mutant: the exact and startswith modes compare the query name only,
\* not the aliases
ModeScore_NoAliases(label, qname, tname, alns) ==
  LET qn == norm(qname)
      tn == norm(tname)
  IN  CASE label = "exact" -> IF tn = qn THEN 100 ELSE 0
        [] label = "startswith" -> IF startswith(tn, qn) THEN 92 ELSE 0
        [] label = "contains" ->
             IF contains(qn, tn) \/ \E i \in 1..Len(alns) : contains(alns[i], tn)
             THEN 88 ELSE 0
        [] label = "fuzzy" ->
             IF alns # <<>>
             THEN Max({WRatio(qname, tname)} \cup
                      {WRatio(alns[i], tname) : i \in 1..Len(alns)})
             ELSE WRatio(qname, tname)

\* the score each enabled mode adds to name_scores / details
ModeScore(label, qname, tname, alns) ==
  LET qn == norm(qname)
      tn == norm(tname)
  IN  CASE label = "exact" ->
             IF tn = qn \/ \E i \in 1..Len(alns) : tn = alns[i] THEN 100 ELSE 0
        [] label = "startswith" ->
             IF startswith(tn, qn) \/ \E i \in 1..Len(alns) : startswith(tn, alns[i])
             THEN 92 ELSE 0
        [] label = "contains" ->
             IF contains(qn, tn) \/ \E i \in 1..Len(alns) : contains(alns[i], tn)
             THEN 88 ELSE 0
        [] label = "fuzzy" ->
             IF alns # <<>>
             THEN Max({WRatio(qname, tname)} \cup
                      {WRatio(alns[i], tname) : i \in 1..Len(alns)})
             ELSE WRatio(qname, tname)

\* mutant: every mode is taken as enabled
EnabledLabels_All(match_modes) == Modes

EnabledLabels(match_modes) == match_modes \cap Modes

\* mutant: every mode contributes, enabled or not
NameScore_AllModes(qname, tname, match_modes, alns) ==
  Max({ModeScore(l, qname, tname, alns) : l \in Modes})

NameScore(qname, tname, match_modes, alns) ==
  LET name_scores == {ModeScore(l, qname, tname, alns) : l \in EnabledLabels(match_modes)}
  IN  IF name_scores # {} THEN Max(name_scores) ELSE 0

DevBonus(developer_hint, seller) ==
  IF Truthy(developer_hint)
  THEN IF contains(norm(developer_hint), norm(seller))
       THEN 8
       ELSE IF partial_ratio(developer_hint, seller) >= 80 THEN 4 ELSE 0
  ELSE 0

\* mutant: the hint is compared without normalization
BundleBonus_NoNorm(bundle_hint, bundle) ==
  IF Truthy(bundle_hint)
  THEN IF bundle_hint = bundle THEN 25
       ELSE IF contains(norm(bundle_hint), norm(bundle)) THEN 12
       ELSE 0
  ELSE 0

\* mutant: the substring test comes first, so an equal bundle id earns 12
BundleBonus_SubstrFirst(bundle_hint, bundle) ==
  IF Truthy(bundle_hint)
  THEN IF contains(norm(bundle_hint), norm(bundle)) THEN 12
       ELSE IF norm(bundle_hint) = norm(bundle) THEN 25
       ELSE 0
  ELSE 0

\* mutant: the substring tier is added on top of the exact tier
BundleBonus_Stacked(bundle_hint, bundle) ==
  IF Truthy(bundle_hint)
  THEN (IF norm(bundle_hint) = norm(bundle) THEN 25 ELSE 0)
       + (IF contains(norm(bundle_hint), norm(bundle)) THEN 12 ELSE 0)
  ELSE 0

BundleBonus(bundle_hint, bundle) ==
  IF Truthy(bundle_hint)
  THEN IF norm(bundle_hint) = norm(bundle) THEN 25
       ELSE IF contains(norm(bundle_hint), norm(bundle)) THEN 12
       ELSE 0
  ELSE 0

GenreBonus(pgenre, genres) ==
  IF pgenre \in HEALTHY_GENRES \/ (HEALTHY_GENRES \cap genres) # {} THEN 3 ELSE 0

score_candidate(qname, cand, match_modes, aliases, developer_hint, bundle_hint) ==
  LET tname == OrEmpty(cand.trackName)
      seller == SellerOf(cand)
      bundle == OrEmpty(cand.bundleId)
      pgenre == IF cand.primaryGenreName = NoGenre THEN "" ELSE cand.primaryGenreName
      genres == cand.genres
      alns == NormAliases(aliases)
      name_score == NameScore(qname, tname, match_modes, alns)
      dev_bonus == DevBonus(developer_hint, seller)
      bundle_bonus == BundleBonus(bundle_hint, bundle)
      genre_bonus == GenreBonus(pgenre, genres)
      total == name_score + dev_bonus + bundle_bonus + genre_bonus
      keys == EnabledLabels(match_modes) \cup
              {"dev_bonus", "bundle_bonus", "genre_bonus", "total"}
      details == [k \in keys |->
                    CASE k = "dev_bonus" -> dev_bonus
                      [] k = "bundle_bonus" -> bundle_bonus
                      [] k = "genre_bonus" -> genre_bonus
                      [] k = "total" -> total
                      [] OTHER -> ModeScore(k, qname, tname, alns)]
  IN  <<total, details>>

-----------------------------------------------------------------------------
(* pick_winner *)

\* mutant: among equal totals the entry met last comes first
RECURSIVE SortedDesc_LastOfTies(_)
SortedDesc_LastOfTies(s) ==
  IF s = <<>> THEN <<>>
  ELSE LET best == Max({s[i][2] : i \in 1..Len(s)})
           k == CHOOSE i \in 1..Len(s) :
                  s[i][2] = best /\ \A j \in (i + 1)..Len(s) : s[j][2] # best
       IN  <<s[k]>> \o SortedDesc_LastOfTies(SubSeq(s, 1, k - 1)
                                              \o SubSeq(s, k + 1, Len(s)))

\* sorted(scored, key=lambda x: x[1], reverse=True): stable, descending
RECURSIVE SortedDesc(_)
SortedDesc(s) ==
  IF s = <<>> THEN <<>>
  ELSE LET best == Max({s[i][2] : i \in 1..Len(s)})
           k == CHOOSE i \in 1..Len(s) :
                  s[i][2] = best /\ \A j \in 1..(i - 1) : s[j][2] # best
       IN  <<s[k]>> \o SortedDesc(SubSeq(s, 1, k - 1) \o SubSeq(s, k + 1, Len(s)))

\* mutant: the margin rule is left out
pick_winner_NoGap(sc, minScore, minGap) ==
  IF sc = <<>> THEN <<NoWinner, <<>>>>
  ELSE LET rk == SortedDesc(sc)
           top == rk[1]
       IN  IF top[2] < minScore THEN <<NoWinner, rk>> ELSE <<top, rk>>

\* mutant: the thresholds are tested with <= instead of <
pick_winner_Strict(sc, minScore, minGap) ==
  IF sc = <<>> THEN <<NoWinner, <<>>>>
  ELSE LET rk == SortedDesc(sc)
           top == rk[1]
       IN  IF top[2] <= minScore THEN <<NoWinner, rk>>
           ELSE IF Len(rk) >= 2 /\ (top[2] - rk[2][2]) <= minGap THEN <<NoWinner, rk>>
           ELSE <<top, rk>>

pick_winner(sc, minScore, minGap) ==
  IF sc = <<>> THEN <<NoWinner, <<>>>>
  ELSE LET rk == SortedDesc(sc)
           top == rk[1]
       IN  IF top[2] < minScore THEN <<NoWinner, rk>>
           ELSE IF Len(rk) >= 2 /\ (top[2] - rk[2][2]) < minGap THEN <<NoWinner, rk>>
           ELSE <<top, rk>>

-----------------------------------------------------------------------------
(* Values shared by the specifications *)

Cand(tid, name, seller, artist, bundle, pgenre, genres) ==
  [trackId |-> tid, trackName |-> name, sellerName |-> seller,
   artistName |-> artist, bundleId |-> bundle, primaryGenreName |-> pgenre,
   genres |-> genres]

\* the state of main before its loop starts; the pure-function
\* specifications leave it alone
IdleRun ==
  /\ qi = 1
  /\ candidates_by_id = <<>>
  /\ existing_track_ids = {}
  /\ final = None
  /\ master_rows = <<>>
  /\ needs_review_rows = <<>>
  /\ cand_rows = <<>>
  /\ written = {}
  /\ results = <<>>
  /\ looked = <<>>
  /\ failed = {}
  /\ paced = TRUE

\* a function called on its own has no command line
NoCommandLine == args = <<>> /\ lang_map = <<>>

\* the patterns score_candidate hands to WRatio, and the pairs it asks about
FuzzyPatterns(qname, aliases) == {qname} \cup Range(NormAliases(aliases))

WRatioPairs(qname, aliases, cands) ==
  {<<p, OrEmpty(cands[i].trackName)>> :
     p \in FuzzyPatterns(qname, aliases), i \in 1..Len(cands)}

PartialPairs(developer_hint, cands) ==
  {<<developer_hint, SellerOf(cands[i])>> : i \in 1..Len(cands)}

-----------------------------------------------------------------------------
(* SpecScore: score_candidate applied to bounded inputs *)

Alphabet == {"a", "A", "b", " "}
Strs(n) == UNION {[1..k -> Alphabet] : k \in 0..n}

FuzzyVals == {0, 90, 95, 100}
PartialVals == {79, 80}

QNames == {<<"a">>, <<"a", "b">>, <<"A", " ">>, <<" ">>}
AliasLists == {<<>>, << <<"b">> >>, << <<>>, <<"A", "b">> >>, << <<" ">> >>}

DevHints == {None, <<>>, <<" ">>, <<"a">>, <<" ", "A">>}
SellerPairs == {<<None, None>>, <<None, <<"A">>>>, <<<<"b", "a">>, None>>,
                <<<<"b">>, <<"A">>>>}
BundleHints == {None, <<>>, <<" ">>, <<"a">>, <<"A", " ">>}
Bundles == {None, <<"a">>, <<"a", "b">>, <<"b">>}
GenreCases == {<<NoGenre, {}>>, <<"Medical", {}>>,
               <<"Games", {"Health & Fitness", "Games"}>>, <<"Games", {"Games"}>>}
BonusModes == {{"contains"}, {"startswith", "contains", "fuzzy"}}

\* names vary, every subset of the modes, every oracle; no hints
InitScoreNames ==
  \E qn \in QNames, al \in AliasLists, tn \in Strs(MaxLen) \cup {None},
     mm \in SUBSET Modes :
    LET cands == <<Cand(1, tn, None, None, None, NoGenre, {})>>
    IN  /\ call = [qname |-> qn, aliases |-> al, developer_hint |-> <<>>,
                   bundle_hint |-> <<>>, cands |-> cands]
        /\ match_mode = mm
        /\ wr \in [WRatioPairs(qn, al, cands) ->
                     IF "fuzzy" \in mm THEN FuzzyVals ELSE {0}]
        /\ pr = [p \in PartialPairs(<<>>, cands) |-> 0]

\* hints, seller, bundle ids and genres vary; two candidates that differ in
\* their bundle id only
InitScoreBonus ==
  \E dh \in DevHints, sp \in SellerPairs, bh \in BundleHints,
     b1 \in Bundles, b2 \in Bundles, g \in GenreCases, mm \in BonusModes :
    LET cands == <<Cand(1, <<"a", "b">>, sp[1], sp[2], b1, g[1], g[2]),
                   Cand(2, <<"a", "b">>, sp[1], sp[2], b2, g[1], g[2])>>
    IN  /\ call = [qname |-> <<"a">>, aliases |-> <<>>, developer_hint |-> dh,
                   bundle_hint |-> bh, cands |-> cands]
        /\ match_mode = mm
        /\ wr = [p \in WRatioPairs(<<"a">>, <<>>, cands) |-> 90]
        /\ pr \in [PartialPairs(dh, cands) ->
                     IF Truthy(dh) THEN PartialVals ELSE {0}]

InitScore ==
  /\ InitScoreNames \/ InitScoreBonus
  /\ NoCommandLine
  /\ rows = <<>>
  /\ min_score = 80
  /\ min_gap = 8
  /\ pc = "score"
  /\ ci = 1
  /\ scored = <<>>
  /\ winner = NoWinner
  /\ ranked = <<>>
  /\ IdleRun

\* one call of score_candidate, its result appended to scored
CallScoreCandidate ==
  /\ pc = "score"
  /\ ci <= Len(call.cands)
  /\ LET r == score_candidate(call.qname, call.cands[ci], match_mode,
                              call.aliases, call.developer_hint, call.bundle_hint)
     IN  scored' = Append(scored, <<call.cands[ci], r[1], r[2]>>)
  /\ ci' = ci + 1
  /\ UNCHANGED <<cfgVars, qi, pc, candidates_by_id, winner, ranked,
                 existing_track_ids, final, master_rows, needs_review_rows,
                 cand_rows, written, results, looked, failed, paced, call>>

NextScore == CallScoreCandidate

SpecScore == InitScore /\ [][NextScore]_vars

-----------------------------------------------------------------------------
(* Claims about score_candidate, checked under SpecScore *)

\* what a scored entry says its name score was: its total less its bonuses
NameScoreOf(e) ==
  e[2] - e[3]["dev_bonus"] - e[3]["bundle_bonus"] - e[3]["genre_bonus"]

\* the normalized query name and aliases of the call under test
CallPatterns == {norm(call.qname)} \cup Range(NormAliases(call.aliases))

ExactHolds(e) == norm(OrEmpty(e[1].trackName)) \in CallPatterns
StartsHolds(e) == \E p \in CallPatterns : startswith(norm(OrEmpty(e[1].trackName)), p)
ContainsHolds(e) == \E p \in CallPatterns : contains(p, norm(OrEmpty(e[1].trackName)))
FuzzyOf(e) == Max({wr[<<p, OrEmpty(e[1].trackName)>>] :
                     p \in FuzzyPatterns(call.qname, call.aliases)})

\* the contributions of the spec's table for the modes that are enabled
TableScores(e) ==
  (IF "exact" \in match_mode /\ ExactHolds(e) THEN {100} ELSE {})
  \cup (IF "startswith" \in match_mode /\ StartsHolds(e) THEN {92} ELSE {})
  \cup (IF "contains" \in match_mode /\ ContainsHolds(e) THEN {88} ELSE {})
  \cup (IF "fuzzy" \in match_mode THEN {FuzzyOf(e)} ELSE {})
  \cup {0}

\* C5: for every scored candidate, total = name_score + dev_bonus +
\* bundle_bonus + genre_bonus, the breakdown's total is that total, and
\* name_score is the maximum of the contributions of the enabled modes only
\* (0 when none is enabled or none fires).
C5_TotalIsSumOverEnabledModes ==
  \A i \in 1..Len(scored) :
    /\ scored[i][3]["total"] = scored[i][2]
    /\ NameScoreOf(scored[i]) = Max(TableScores(scored[i]))
    /\ (match_mode = {} => NameScoreOf(scored[i]) = 0)

\* C5 witness: an exact match scored while the exact mode is disabled and
\* startswith is enabled: the disabled 100 does not contribute.
C5_Witness ==
  \E i \in 1..Len(scored) :
    /\ ExactHolds(scored[i])
    /\ "exact" \notin match_mode
    /\ match_mode = {"startswith"}
    /\ NameScoreOf(scored[i]) = 92

\* C6 as stated: whenever the normalized candidate name equals the
\* normalized query name or an alias, name_score is 100 (stated here for
\* non-empty names and mode sets that enable a mode other than fuzzy).
C6_ExactAlwaysHundred ==
  \A i \in 1..Len(scored) :
    ( /\ ExactHolds(scored[i])
      /\ norm(OrEmpty(scored[i][1].trackName)) # <<>>
      /\ match_mode # {}
      /\ "fuzzy" \notin match_mode )
    => NameScoreOf(scored[i]) = 100

\* C6 amended: with the exact mode enabled, an exact match has name_score
\* 100, and the startswith and contains modes, when enabled, fire on the same
\* candidate with their 92 and 88, which the 100 dominates.
C6_ExactHundredWhenEnabled ==
  \A i \in 1..Len(scored) :
    ("exact" \in match_mode /\ ExactHolds(scored[i])) =>
      /\ NameScoreOf(scored[i]) = 100
      /\ scored[i][3]["exact"] = 100
      /\ "startswith" \in match_mode => scored[i][3]["startswith"] = 92
      /\ "contains" \in match_mode => scored[i][3]["contains"] = 88

\* C6 witness: an exact match through an alias (not the query name), scored
\* with exact, startswith and contains all enabled.
C6_Witness ==
  \E i \in 1..Len(scored) :
    /\ {"exact", "startswith", "contains"} \subseteq match_mode
    /\ norm(OrEmpty(scored[i][1].trackName)) # norm(call.qname)
    /\ ExactHolds(scored[i])
    /\ NameScoreOf(scored[i]) = 100

\* C8: of two candidates with the same name, seller and genres, one whose
\* normalized bundle id equals the normalized hint and one whose bundle id
\* does not contain it, the first totals exactly 25 more.
C8_BundleExactDominates ==
  \A i \in 1..Len(scored), j \in 1..Len(scored) :
    ( /\ scored[i][1].trackName = scored[j][1].trackName
      /\ SellerOf(scored[i][1]) = SellerOf(scored[j][1])
      /\ scored[i][1].primaryGenreName = scored[j][1].primaryGenreName
      /\ scored[i][1].genres = scored[j][1].genres
      /\ norm(scored[i][1].bundleId) = norm(call.bundle_hint)
      /\ ~contains(norm(call.bundle_hint), norm(scored[j][1].bundleId)) )
    => scored[i][2] - scored[j][2] = 25

\* C8 witness: the hint matches the first bundle id only after
\* normalization, only the contains mode is enabled, totals 113 and 88.
C8_Witness ==
  /\ Len(scored) = 2
  /\ match_mode = {"contains"}
  /\ call.bundle_hint # scored[1][1].bundleId
  /\ norm(scored[1][1].bundleId) = norm(call.bundle_hint)
  /\ ~contains(norm(call.bundle_hint), norm(scored[2][1].bundleId))
  /\ scored[1][2] = 113
  /\ scored[2][2] = 88

-----------------------------------------------------------------------------
(* SpecPick: pick_winner applied to bounded scored lists *)

\* most candidates in a scored list drawn for pick_winner
MaxCands == 3

PickTotals == {79, 80, 85, 88, 93}
PickMinScores == {80, 90}
PickMinGaps == {0, 5, 8}

\* a scored entry of total t for the candidate with identifier i
ScoredEntry(i, t) ==
  <<Cand(i, <<"a">>, None, None, None, NoGenre, {}), t,
    [k \in {"dev_bonus", "bundle_bonus", "genre_bonus", "total"} |->
       IF k = "total" THEN t ELSE 0]>>

InitPick ==
  /\ NoCommandLine
  /\ \E n \in 0..MaxCands : \E ts \in [1..n -> PickTotals] :
       scored = [i \in 1..n |-> ScoredEntry(i, ts[i])]
  /\ min_score \in PickMinScores
  /\ min_gap \in PickMinGaps
  /\ rows = <<>>
  /\ match_mode = {}
  /\ wr = <<>>
  /\ pr = <<>>
  /\ call = <<>>
  /\ pc = "pick"
  /\ ci = 1
  /\ winner = NoWinner
  /\ ranked = <<>>
  /\ IdleRun

\* one call of pick_winner on the scored list
CallPickWinner ==
  /\ pc = "pick"
  /\ LET r == pick_winner(scored, min_score, min_gap)
     IN  /\ winner' = r[1]
         /\ ranked' = r[2]
  /\ pc' = "picked"
  /\ UNCHANGED <<cfgVars, runVars, scored, call>>

NextPick == CallPickWinner

SpecPick == InitPick /\ [][NextPick]_vars

-----------------------------------------------------------------------------
(* Claims about pick_winner, checked under SpecPick *)

Totals(sc) == {sc[i][2] : i \in 1..Len(sc)}

\* the totals of all entries of sc but one entry of the highest total
OtherTotals(sc) ==
  LET k == CHOOSE i \in 1..Len(sc) : sc[i][2] = Max(Totals(sc))
  IN  {sc[j][2] : j \in (1..Len(sc)) \ {k}}

\* rk holds exactly the entries of sc, in descending order of total
IsRankingOf(rk, sc) ==
  /\ Len(rk) = Len(sc)
  /\ Range(rk) = Range(sc)
  /\ \A i \in 1..(Len(rk) - 1) : rk[i][2] >= rk[i + 1][2]

\* C3: a winner's total is >= min_score and, with two or more candidates,
\* exceeds every other candidate's total by >= min_gap; totals 85 and 80
\* with min_score = 80 and min_gap = 8 give no winner.
C3_WinnerRespectsThresholds ==
  pc = "picked" =>
    /\ winner # NoWinner =>
         /\ winner[2] >= min_score
         /\ winner[2] = Max(Totals(scored))
         /\ Len(scored) >= 2 =>
              \A t \in OtherTotals(scored) : winner[2] - t >= min_gap
    /\ ( /\ Len(scored) = 2
         /\ scored[1][2] = 85
         /\ scored[2][2] = 80
         /\ min_score = 80
         /\ min_gap = 8 ) => (winner = NoWinner /\ ranked = scored)

\* C3 witness: a winner among three candidates, one of them a runner-up
\* that clears min_score as well.
C3_Witness ==
  /\ pc = "picked"
  /\ winner # NoWinner
  /\ Len(scored) = 3
  /\ min_gap = 8
  /\ \E t \in OtherTotals(scored) : t >= min_score

\* C4: pick_winner returns (no winner, empty ranking) iff the list is
\* empty; otherwise the ranking carries every candidate in descending
\* order, and there is no winner if the top total < min_score, no winner if
\* there are >= 2 candidates and top - second < min_gap, and the top-ranked
\* candidate as winner otherwise.
C4_Classification ==
  pc = "picked" =>
    /\ (scored = <<>>) <=> (winner = NoWinner /\ ranked = <<>>)
    /\ scored # <<>> =>
         LET top == Max(Totals(scored))
         IN  /\ IsRankingOf(ranked, scored)
             /\ IF top < min_score THEN winner = NoWinner
                ELSE IF Len(scored) >= 2 /\ top - Max(OtherTotals(scored)) < min_gap
                THEN winner = NoWinner
                ELSE winner = ranked[1] /\ winner[2] = top

\* C4 witness: the gap between the top and the second total is exactly
\* min_gap > 0 and the top candidate, not the first of the list, is confirmed.
C4_Witness ==
  /\ pc = "picked"
  /\ Len(scored) >= 2
  /\ min_gap > 0
  /\ Max(Totals(scored)) - Max(OtherTotals(scored)) = min_gap
  /\ winner # NoWinner
  /\ scored[1] # winner

-----------------------------------------------------------------------------
(* SpecScenario: the end-to-end scenario of the specification, scored and *)
(* decided under every set of matching modes and every fuzzy oracle       *)

PeriodTracker ==
  <<"P", "e", "r", "i", "o", "d", " ", "T", "r", "a", "c", "k", "e", "r">>
PeriodTrackerLite == PeriodTracker \o <<" ", "L", "i", "t", "e">>
ComAcmePeriod ==
  <<"c", "o", "m", ".", "a", "c", "m", "e", ".", "p", "e", "r", "i", "o", "d">>
ComOtherApp ==
  <<"c", "o", "m", ".", "o", "t", "h", "e", "r", ".", "a", "p", "p">>

ScenarioA == Cand(1, PeriodTrackerLite, None, None, ComAcmePeriod, "Games", {"Games"})
ScenarioB == Cand(2, PeriodTracker, None, None, ComOtherApp, "Games", {"Games"})

InitScenario ==
  /\ NoCommandLine
  /\ call = [qname |-> PeriodTracker, aliases |-> <<>>, developer_hint |-> <<>>,
             bundle_hint |-> ComAcmePeriod, cands |-> <<ScenarioA, ScenarioB>>]
  /\ match_mode \in SUBSET Modes
  /\ wr \in [WRatioPairs(PeriodTracker, <<>>, <<ScenarioA, ScenarioB>>) ->
               IF "fuzzy" \in match_mode THEN FuzzyVals ELSE {0}]
  /\ pr = [p \in PartialPairs(<<>>, <<ScenarioA, ScenarioB>>) |-> 0]
  /\ rows = <<>>
  /\ min_score = 80
  /\ min_gap = 8
  /\ pc = "score"
  /\ ci = 1
  /\ scored = <<>>
  /\ winner = NoWinner
  /\ ranked = <<>>
  /\ IdleRun

\* every candidate of the call is scored: the list goes to pick_winner
ScoringDone ==
  /\ pc = "score"
  /\ ci > Len(call.cands)
  /\ pc' = "pick"
  /\ UNCHANGED <<cfgVars, runVars, scored, winner, ranked, call>>

NextScenario == CallScoreCandidate \/ ScoringDone \/ CallPickWinner

SpecScenario == InitScenario /\ [][NextScenario]_vars

\* C7 as stated: A totals 113, B totals 100 and A is confirmed with gap 13
\* (stated here for the default matching modes, startswith contains fuzzy).
C7_ScenarioAsStated ==
  (pc = "picked" /\ match_mode = {"startswith", "contains", "fuzzy"}) =>
    /\ scored[1][2] = 113
    /\ scored[2][2] = 100
    /\ winner = scored[1]
    /\ scored[1][2] - scored[2][2] = 13

\* C7 amended: with exactly the exact and contains modes enabled, A totals
\* 113 = 88 + 25, B totals 100 = 100 + 0 and pick_winner confirms A with gap
\* 13; under every mode set that enables startswith A totals at least
\* 117 = 92 + 25, because A's name starts with the query name.
C7_ScenarioExactContains ==
  pc = "picked" =>
    /\ match_mode = {"exact", "contains"} =>
         /\ scored[1][1] = ScenarioA
         /\ scored[2][1] = ScenarioB
         /\ scored[1][2] = 113
         /\ scored[1][3]["contains"] = 88
         /\ scored[1][3]["bundle_bonus"] = 25
         /\ scored[2][2] = 100
         /\ scored[2][3]["exact"] = 100
         /\ scored[2][3]["bundle_bonus"] = 0
         /\ winner = scored[1]
         /\ ranked = scored
         /\ winner[2] - ranked[2][2] = 13
    /\ "startswith" \in match_mode => scored[1][2] >= 117

\* C7 witness: the scenario decided with the exact and contains modes.
C7_Witness ==
  /\ pc = "picked"
  /\ match_mode = {"exact", "contains"}
  /\ winner # NoWinner
  /\ winner[1] = ScenarioA

-----------------------------------------------------------------------------
(* Spec: a resolver run, main() from the loaded rows to the written tables *)

\* --countries and the upper-cased codes recorded in _countries
countries == <<"gb", "jp">>
upper == [gb |-> "GB", jp |-> "JP"]

DefaultModes == {"startswith", "contains", "fuzzy"}

Row(key, name, dev, bundle, aliases) ==
  [app_key |-> key, query_name |-> name, developer_hint |-> dev,
   bundle_hint |-> bundle, aliases |-> aliases]

\* the input table: two spellings of one app name, and another name
AllRows ==
  << Row("k1", <<"a", "b">>, <<>>, <<"x">>, <<>>),
     Row("k2", <<"A", "B">>, <<"d">>, <<>>, << <<"c">> >>),
     Row("k3", <<"c">>, <<>>, <<>>, <<>>),
     Row("k4", <<"a", "b", "c">>, <<>>, <<"y">>, <<>>) >>

\* raw search hits: identifier 1 as two countries describe it, identifier
\* 2, and a hit without identifier
Hit1gb == Cand(1, <<"a", "b">>, <<"d">>, None, <<"x">>, "Medical", {"Medical"})
Hit1jp == Cand(1, <<"a", "b", "c">>, None, <<"D">>, None, "Games", {"Games"})
Hit2 == Cand(2, <<"a", "b", "d">>, <<"e">>, None, <<"y">>, "Games", {"Games"})
Hit0 == Cand(0, <<"a", "b">>, <<"d">>, None, <<"x">>, "Medical", {"Medical"})

\* more identifiers, so that one query can have more candidates than the
\* review queue takes: three names like Hit2's, one with a healthy genre,
\* and one name that matches no query
Hit3 == Cand(3, <<"a", "b", "e">>, <<"e">>, None, <<"y">>, "Medical", {"Medical"})
Hit4 == Cand(4, <<"a", "b", "f">>, <<"e">>, None, <<"y">>, "Games", {"Games"})
Hit5 == Cand(5, <<"z", "b">>, <<"e">>, None, <<"y">>, "Games", {"Games"})
Hit6 == Cand(6, <<"a", "b", "g">>, <<"e">>, None, <<"y">>, "Games", {"Games"})

\* what one search call may return, by country
SearchResults(country) ==
  IF country = "gb"
  THEN {<<>>, <<Hit1gb>>, <<Hit1jp, Hit2>>}
  ELSE {<<>>, <<Hit0, Hit2, Hit1gb, Hit1jp>>,
        <<Hit2, Hit1jp, Hit3, Hit4, Hit5, Hit6>>}

\* what one lookup call may do: raise, return None, or return the record
\* of the requested identifier as the country's catalog holds it (its name
\* differs by country), with or without a bundle id
LookupRecord(track_id, country, bundle) ==
  Cand(track_id, <<"a", "b", " ">> \o <<country>>, <<"d">>, None, bundle,
       "Medical", {"Medical"})

LookupOutcomes(track_id, country) ==
  {[kind |-> "raise"], [kind |-> "none"],
   [kind |-> "record", rec |-> LookupRecord(track_id, country, None)],
   [kind |-> "record", rec |-> LookupRecord(track_id, country, <<"x", ".", "v">>)]}

\* a or b
OrElse(a, b) == IF Truthy(a) THEN a ELSE b

\* mutant: a later hit of a known identifier overwrites the candidate
RECURSIVE Aggregate_LastWins(_, _, _)
Aggregate_LastWins(cands, res, country) ==
  IF res = <<>> THEN cands
  ELSE LET rec == Head(res)
           tid == rec.trackId
       IN  IF tid = 0 THEN Aggregate_LastWins(cands, Tail(res), country)
           ELSE IF \A i \in 1..Len(cands) : cands[i].trackId # tid
           THEN Aggregate_LastWins(
                  Append(cands, rec @@ [_countries |-> {upper[country]}]),
                  Tail(res), country)
           ELSE Aggregate_LastWins(
                  [i \in 1..Len(cands) |->
                     IF cands[i].trackId = tid
                     THEN rec @@ [_countries |->
                                    cands[i]._countries \cup {upper[country]}]
                     ELSE cands[i]],
                  Tail(res), country)

\* mutant: a later country's hit of a known identifier is ignored
RECURSIVE Aggregate_FirstCountryOnly(_, _, _)
Aggregate_FirstCountryOnly(cands, res, country) ==
  IF res = <<>> THEN cands
  ELSE LET rec == Head(res)
           tid == rec.trackId
       IN  IF tid = 0 \/ \E i \in 1..Len(cands) : cands[i].trackId = tid
           THEN Aggregate_FirstCountryOnly(cands, Tail(res), country)
           ELSE Aggregate_FirstCountryOnly(
                  Append(cands, rec @@ [_countries |-> {upper[country]}]),
                  Tail(res), country)

\* the loop over one country's results (lines 218-227), hit by hit
RECURSIVE Aggregate(_, _, _)
Aggregate(cands, res, country) ==
  IF res = <<>> THEN cands
  ELSE LET rec == Head(res)
           tid == rec.trackId
       IN  IF tid = 0 THEN Aggregate(cands, Tail(res), country)
           ELSE IF \A i \in 1..Len(cands) : cands[i].trackId # tid
           THEN Aggregate(Append(cands, rec @@ [_countries |-> {upper[country]}]),
                          Tail(res), country)
           ELSE Aggregate(
                  [i \in 1..Len(cands) |->
                     IF cands[i].trackId = tid
                     THEN [cands[i] EXCEPT !._countries = @ \cup {upper[country]}]
                     ELSE cands[i]],
                  Tail(res), country)

AuditRow(row, rec, details) ==
  [app_key |-> row.app_key, query_name |-> row.query_name,
   trackId |-> rec.trackId, bundleId |-> rec.bundleId,
   trackName |-> rec.trackName,
   sellerName |-> OrElse(rec.sellerName, rec.artistName),
   primaryGenreName |-> rec.primaryGenreName,
   countries_found |-> rec._countries] @@ details

ReviewRow(row, e) ==
  [app_key |-> row.app_key, query_name |-> row.query_name,
   trackId |-> e[1].trackId, bundleId |-> e[1].bundleId,
   trackName |-> e[1].trackName,
   sellerName |-> OrElse(e[1].sellerName, e[1].artistName),
   primaryGenreName |-> e[1].primaryGenreName,
   countries_found |-> e[1]._countries,
   score_total |-> e[2], score_breakdown |-> e[3]]

MasterRow(row, fin, rec, total, details) ==
  [app_key |-> row.app_key, query_name |-> row.query_name,
   trackId |-> fin.trackId, bundleId |-> fin.bundleId,
   trackName |-> fin.trackName,
   sellerName |-> OrElse(fin.sellerName, fin.artistName),
   primaryGenreName |-> fin.primaryGenreName,
   countries_found |-> rec._countries,
   score_total |-> total, score_breakdown |-> details]

\* every hit with an identifier that a search may return
AllHits == <<Hit1gb, Hit1jp, Hit2, Hit3, Hit4, Hit5, Hit6>>

\* the pairs the fuzzy oracles are asked about in a run over rs
RunWRatioPairs(rs) ==
  UNION {WRatioPairs(rs[k].query_name, rs[k].aliases,
                     AllHits) : k \in 1..Len(rs)}
RunPartialPairs(rs) ==
  UNION {PartialPairs(rs[k].developer_hint, AllHits) :
           k \in 1..Len(rs)}

-----------------------------------------------------------------------------
(* The start of main: the command line, --lang-map and load_inputs *)

\* str.split(sep) for a one-character separator
RECURSIVE Split(_, _)
Split(s, sep) ==
  IF \A i \in 1..Len(s) : s[i] # sep THEN <<s>>
  ELSE LET k == CHOOSE i \in 1..Len(s) :
                  s[i] = sep /\ \A j \in 1..(i - 1) : s[j] # sep
       IN  <<SubSeq(s, 1, k - 1)>> \o Split(SubSeq(s, k + 1, Len(s)), sep)

\* country.lower() of the configured countries, as strings
country_lower == [gb |-> <<"g", "b">>, jp |-> <<"j", "p">>]

\* line 172: the default of --lang-map, gb=en_us,jp=ja_jp
DefaultLangMap ==
  <<"g", "b", "=", "e", "n", "_", "u", "s", ",",
    "j", "p", "=", "j", "a", "_", "j", "p">>

\* line 188: the language of a country that --lang-map does not name
en_us == <<"e", "n", "_", "u", "s">>

\* mutant: only the first '=' of a pair separates (split("=", 1))
PairUnpacks_Lenient(parts) == Len(parts) >= 2

\* line 186: c, l = pair.split("=") takes exactly two parts, else ValueError
PairUnpacks(parts) == Len(parts) = 2

\* lines 183-189: the country to language dict of a --lang-map string, or
\* the ValueError of its first pair that does not unpack
ParseLangMap(str) ==
  LET pairs == IF Truthy(str) THEN Split(str, ",") ELSE <<>>
      parts == [i \in 1..Len(pairs) |-> Split(pairs[i], "=")]
      Key(i) == lower(strip(parts[i][1]))
      named == {Key(i) : i \in 1..Len(pairs)}
      defaults == {country_lower[countries[k]] : k \in 1..Len(countries)}
  IN  IF \E i \in 1..Len(pairs) : ~PairUnpacks(parts[i])
      THEN [kind |-> "raise"]
      ELSE [kind |-> "ok",
            map |-> [c \in named \cup defaults |->
                       IF c \in named
                       THEN LET last == CHOOSE i \in 1..Len(pairs) :
                                          /\ Key(i) = c
                                          /\ \A j \in (i + 1)..Len(pairs) : Key(j) # c
                            IN  strip(parts[last][2])
                       ELSE en_us]]

\* the text files a run may be given, by path: a file of two names (one
\* between blanks) and an empty line, and an empty file
NamesPath == <<"n">>
EmptyPath == <<"e">>
FileLines(path) ==
  IF path = NamesPath THEN << <<" ", "a", "b", " ">>, <<>>, <<"A", "B">> >>
  ELSE <<>>

\* lines 142-145 for the lines of the file from some line on
RECURSIVE NameRows(_)
NameRows(lines) ==
  IF lines = <<>> THEN <<>>
  ELSE LET q == strip(Head(lines))
       IN  (IF Truthy(q)
            THEN << [app_key |-> q, query_name |-> q, developer_hint |-> <<>>,
                     bundle_hint |-> <<>>, aliases |-> <<>>] >>
            ELSE <<>>) \o NameRows(Tail(lines))

\* the table of the CSV file a run may be given, as read_csv returns it: no
\* app_key column, NaN for the empty developer_hint cell
NaN == <<"NaN">>
CsvPath == <<"c">>
CsvTable ==
  << [query_name |-> <<"a", "b">>, developer_hint |-> NaN,
      bundle_hint |-> <<"x">>, alias_1 |-> <<" ", "c">>, alias_2 |-> NaN] >>

\* lines 146-161: one row of the table (its columns are query_name,
\* developer_hint, bundle_hint, alias_1, alias_2)
CsvRow(r) ==
  LET alias_cols == <<r.alias_1, r.alias_2>>
      IsAlias(v) == v # NaN /\ Truthy(strip(v))
      kept == SelectSeq(alias_cols, IsAlias)
  IN  [app_key |-> r.query_name, query_name |-> r.query_name,
       developer_hint |-> IF r.developer_hint # NaN THEN r.developer_hint ELSE <<>>,
       bundle_hint |-> IF r.bundle_hint # NaN THEN r.bundle_hint ELSE <<>>,
       aliases |-> [i \in 1..Len(kept) |-> strip(kept[i])]]

\* load_inputs (lines 138-164): the rows, or the ValueError when neither
\* input is given
load_inputs(a) ==
  IF Truthy(a.input_names)
  THEN [kind |-> "ok", rows |-> NameRows(FileLines(a.input_names))]
  ELSE IF Truthy(a.input_csv)
  THEN [kind |-> "ok", rows |-> [i \in 1..Len(CsvTable) |-> CsvRow(CsvTable[i])]]
  ELSE [kind |-> "raise"]

\* the command line of a run with all defaults, its input the CSV file
\* that holds the table AllRows
RunCsvPath == <<"r">>
DefaultArgs ==
  [input_names |-> None, input_csv |-> RunCsvPath, lang_map |-> DefaultLangMap]

Init ==
  /\ args = DefaultArgs
  /\ lang_map = ParseLangMap(args.lang_map).map
  /\ rows = SubSeq(AllRows, 1, MaxQueries)
  /\ match_mode \in {DefaultModes, Modes}
  /\ min_score = 80
  /\ min_gap = 8
  /\ \E v \in {0, 95} : wr = [p \in RunWRatioPairs(rows) |-> v]
  /\ pr = [p \in RunPartialPairs(rows) |-> 0]
  /\ pc = "search"
  /\ ci = 1
  /\ scored = <<>>
  /\ winner = NoWinner
  /\ ranked = <<>>
  /\ call = <<>>
  /\ IdleRun

\* mutant: the search is called outside any try block
SearchRaiseCaught_No == FALSE

\* line 214: the except clause of the search catches every Exception
SearchRaiseCaught == TRUE

\* lines 210-227: one country's search (a caught exception gives no results)
\* and the merge of its hits into candidates_by_id; an exception that is not
\* caught ends the run
SearchCountry ==
  /\ pc = "search"
  /\ qi <= Len(rows)
  /\ ci <= Len(countries)
  /\ paced' = FALSE
  /\ \E raised \in BOOLEAN, out \in SearchResults(countries[ci]) :
       IF raised /\ ~SearchRaiseCaught
       THEN /\ pc' = "aborted"
            /\ UNCHANGED <<results, candidates_by_id, failed>>
       ELSE LET res == IF raised THEN <<>> ELSE out
            IN  /\ results' = Append(results, res)
                /\ candidates_by_id' = Aggregate(candidates_by_id, res, countries[ci])
                /\ failed' = IF raised THEN failed \cup {ci} ELSE failed
                /\ pc' = "sleep_search"
  /\ UNCHANGED <<cfgVars, qi, ci, scored, winner, ranked, existing_track_ids,
                 final, master_rows, needs_review_rows, cand_rows, written,
                 looked, call>>

\* mutant: a search that raised ends the loop over the countries
SleepAfterSearch_StopsOnFailure ==
  /\ pc = "sleep_search"
  /\ ci' = ci + 1
  /\ paced' = TRUE
  /\ pc' = IF ci + 1 > Len(countries) \/ failed # {} THEN "scoring" ELSE "search"
  /\ UNCHANGED <<cfgVars, qi, candidates_by_id, scored, winner, ranked,
                 existing_track_ids, final, master_rows, needs_review_rows,
                 cand_rows, written, results, looked, failed, call>>

\* line 229
SleepAfterSearch ==
  /\ pc = "sleep_search"
  /\ ci' = ci + 1
  /\ paced' = TRUE
  /\ pc' = IF ci + 1 > Len(countries) THEN "scoring" ELSE "search"
  /\ UNCHANGED <<cfgVars, qi, candidates_by_id, scored, winner, ranked,
                 existing_track_ids, final, master_rows, needs_review_rows,
                 cand_rows, written, results, looked, failed, call>>

\* mutant: only candidates that reach min_score get an audit row
AuditRows_AboveThreshold(row, sc) ==
  LET Passes(e) == e[2] >= min_score
      kept == SelectSeq(sc, Passes)
  IN  [i \in 1..Len(kept) |-> AuditRow(row, kept[i][1], kept[i][3])]

\* lines 238-248: the audit rows of one query, one per scored candidate
AuditRows(row, sc) == [i \in 1..Len(sc) |-> AuditRow(row, sc[i][1], sc[i][3])]

\* lines 231-248: every candidate scored, one audit row each
ScoreCandidates ==
  /\ pc = "scoring"
  /\ LET row == rows[qi]
         sc == [i \in 1..Len(candidates_by_id) |->
                  LET r == score_candidate(row.query_name, candidates_by_id[i],
                                           match_mode, row.aliases,
                                           row.developer_hint, row.bundle_hint)
                  IN  <<candidates_by_id[i], r[1], r[2]>>]
     IN  /\ scored' = sc
         /\ cand_rows' = cand_rows \o AuditRows(row, sc)
  /\ pc' = "pick"
  /\ UNCHANGED <<cfgVars, qi, ci, candidates_by_id, winner, ranked,
                 existing_track_ids, final, master_rows, needs_review_rows,
                 written, results, looked, failed, paced, call>>

\* the loop goes on to the next row (or leaves the loop): the locals of
\* the finished iteration are dead
NextRow ==
  /\ qi' = qi + 1
  /\ pc' = IF qi + 1 > Len(rows) THEN "write_master" ELSE "search"
  /\ ci' = 1
  /\ candidates_by_id' = <<>>
  /\ scored' = <<>>
  /\ winner' = NoWinner
  /\ ranked' = <<>>
  /\ final' = None
  /\ results' = <<>>
  /\ looked' = <<>>
  /\ failed' = {}
  /\ paced' = paced

\* mutant: the whole ranking goes to the review queue
TopFive_All(rk) == rk

\* line 255: ranked[:5]
TopFive(rk) == SubSeq(rk, 1, IF Len(rk) < 5 THEN Len(rk) ELSE 5)

\* lines 252-268: no winner, the top five go to the review queue
NoWinnerToReview ==
  /\ pc = "picked"
  /\ winner = NoWinner
  /\ LET top5 == TopFive(ranked)
     IN  needs_review_rows' = needs_review_rows \o
           [i \in 1..Len(top5) |-> ReviewRow(rows[qi], top5[i])]
  /\ NextRow
  /\ UNCHANGED <<cfgVars, existing_track_ids, master_rows, cand_rows, written,
                 call>>

\* mutant: the ledger is never consulted
AlreadyConfirmed_Never(track_id) == FALSE

\* line 273
AlreadyConfirmed(track_id) == track_id \in existing_track_ids

\* mutant: the confirmed identifier is not recorded
LedgerWith_Forgotten(track_id) == existing_track_ids

\* line 276
LedgerWith(track_id) == existing_track_ids \cup {track_id}

\* mutant: a winner whose identifier is in the ledger is put on the review
\* queue
DropDuplicate_ToReview ==
  /\ pc = "picked"
  /\ winner # NoWinner
  /\ AlreadyConfirmed(winner[1].trackId)
  /\ needs_review_rows' = Append(needs_review_rows, ReviewRow(rows[qi], winner))
  /\ NextRow
  /\ UNCHANGED <<cfgVars, existing_track_ids, master_rows, cand_rows, written,
                 call>>

\* lines 271-275: the winner's identifier is in the ledger already
DropDuplicate ==
  /\ pc = "picked"
  /\ winner # NoWinner
  /\ AlreadyConfirmed(winner[1].trackId)
  /\ NextRow
  /\ UNCHANGED <<cfgVars, existing_track_ids, master_rows, needs_review_rows,
                 cand_rows, written, call>>

\* mutant: with the identifier in the ledger the loop goes on to the next
\* row at once, the lookups and the row of this one still to come
AddToLedger_MovesOn ==
  /\ pc = "picked"
  /\ winner # NoWinner
  /\ ~AlreadyConfirmed(winner[1].trackId)
  /\ existing_track_ids' = LedgerWith(winner[1].trackId)
  /\ NextRow
  /\ UNCHANGED <<cfgVars, master_rows, needs_review_rows, cand_rows, written,
                 call>>

\* lines 271-279: a new identifier enters the ledger
AddToLedger ==
  /\ pc = "picked"
  /\ winner # NoWinner
  /\ ~AlreadyConfirmed(winner[1].trackId)
  /\ existing_track_ids' = LedgerWith(winner[1].trackId)
  /\ final' = winner[1]
  /\ ci' = 1
  /\ pc' = "lookup"
  /\ UNCHANGED <<cfgVars, qi, candidates_by_id, scored, winner, ranked,
                 master_rows, needs_review_rows, cand_rows, written, results,
                 looked, failed, paced, call>>

\* mutant: any returned record is taken, with or without bundle id
Qualifies_AnyRecord(out) == out.kind = "record"

\* line 283
Qualifies(out) == out.kind = "record" /\ Truthy(out.rec.bundleId)

\* line 286: the except clause of the lookup catches every Exception
LookupRaiseCaught == TRUE

\* lines 280-287: one country's lookup; a record with a bundle id ends the
\* loop, a caught exception is passed over, an exception that is not caught
\* ends the run
LookupCountry ==
  /\ pc = "lookup"
  /\ ci <= Len(countries)
  /\ paced' = FALSE
  /\ \E out \in LookupOutcomes(winner[1].trackId, countries[ci]) :
       IF out.kind = "raise" /\ ~LookupRaiseCaught
       THEN /\ pc' = "aborted"
            /\ UNCHANGED <<looked, final>>
       ELSE /\ looked' = Append(looked, out)
            /\ IF Qualifies(out)
               THEN final' = out.rec /\ pc' = "emit"
               ELSE final' = final /\ pc' = "sleep_lookup"
  /\ UNCHANGED <<cfgVars, qi, ci, candidates_by_id, scored, winner, ranked,
                 existing_track_ids, master_rows, needs_review_rows, cand_rows,
                 written, results, failed, call>>

\* line 288
SleepAfterLookup ==
  /\ pc = "sleep_lookup"
  /\ ci' = ci + 1
  /\ paced' = TRUE
  /\ pc' = IF ci + 1 > Len(countries) THEN "emit" ELSE "lookup"
  /\ UNCHANGED <<cfgVars, qi, candidates_by_id, scored, winner, ranked,
                 existing_track_ids, final, master_rows, needs_review_rows,
                 cand_rows, written, results, looked, failed, call>>

\* mutant: a winner that no lookup gave a record for gets no row
EmitMasterRow_OnlyLooked ==
  /\ pc = "emit"
  /\ master_rows' =
       IF final = winner[1] THEN master_rows
       ELSE Append(master_rows,
                   MasterRow(rows[qi], final, winner[1], winner[2], winner[3]))
  /\ NextRow
  /\ UNCHANGED <<cfgVars, existing_track_ids, needs_review_rows, cand_rows,
                 written, call>>

\* lines 290-303
EmitMasterRow ==
  /\ pc = "emit"
  /\ master_rows' = Append(master_rows,
                           MasterRow(rows[qi], final, winner[1], winner[2], winner[3]))
  /\ NextRow
  /\ UNCHANGED <<cfgVars, existing_track_ids, needs_review_rows, cand_rows,
                 written, call>>

\* lines 306-308: the three tables are written one after the other, each by
\* its own to_csv call; a call that raises (no try block is around it) ends
\* the run and leaves its table and the later ones unwritten
WriteTable(at, table, next) ==
  /\ pc = at
  /\ \E raised \in BOOLEAN :
       IF raised
       THEN written' = written /\ pc' = "aborted"
       ELSE written' = written \cup {table} /\ pc' = next
  /\ UNCHANGED <<cfgVars, qi, ci, candidates_by_id, scored, winner, ranked,
                 existing_track_ids, final, master_rows, needs_review_rows,
                 cand_rows, results, looked, failed, paced, call>>

WriteMaster == WriteTable("write_master", "apps_master.csv", "write_review")
WriteReview == WriteTable("write_review", "needs_review.csv", "write_audit")
WriteAudit == WriteTable("write_audit", "candidates_raw.csv", "done")

Next ==
  \/ SearchCountry
  \/ SleepAfterSearch
  \/ ScoreCandidates
  \/ CallPickWinner
  \/ NoWinnerToReview
  \/ DropDuplicate
  \/ AddToLedger
  \/ LookupCountry
  \/ SleepAfterLookup
  \/ EmitMasterRow
  \/ WriteMaster
  \/ WriteReview
  \/ WriteAudit

Spec == Init /\ [][Next]_vars

-----------------------------------------------------------------------------
(* SpecConfig: main from the parsed command line on *)

\* values of --lang-map: empty, well-formed (with blanks and upper case, and
\* with empty country and language), and malformed in a pair without '=',
\* with two '=', in an empty last pair and in the second pair
LangMapArgs ==
  { <<>>,
    <<"g", "b", "=", "e", ",", "j", "p", "=", "j">>,
    <<" ", "G", "B", " ", "=", " ", "e">>,
    <<"=">>,
    <<"g", "b">>,
    <<"g", "b", "=", "e", "=", "f">>,
    <<"g", "b", "=", "e", ",">>,
    <<"g", "b", "=", "e", ",", "j", "p">> }

InitConfig ==
  /\ args \in [input_names : {None, <<>>, NamesPath, EmptyPath},
               input_csv : {None, CsvPath},
               lang_map : LangMapArgs]
  /\ lang_map = <<>>
  /\ rows = <<>>
  /\ match_mode = DefaultModes
  /\ min_score = 80
  /\ min_gap = 8
  /\ LET r == load_inputs(args)
         rs == IF r.kind = "ok" THEN r.rows ELSE <<>>
     IN  /\ wr = [p \in RunWRatioPairs(rs) |-> 0]
         /\ pr = [p \in RunPartialPairs(rs) |-> 0]
  /\ pc = "lang_map"
  /\ ci = 1
  /\ scored = <<>>
  /\ winner = NoWinner
  /\ ranked = <<>>
  /\ call = <<>>
  /\ IdleRun

\* lines 183-189: --lang-map parsed; a ValueError ends the run
ParseLangMapArg ==
  /\ pc = "lang_map"
  /\ LET r == ParseLangMap(args.lang_map)
     IN  IF r.kind = "raise"
         THEN lang_map' = lang_map /\ pc' = "aborted"
         ELSE lang_map' = r.map /\ pc' = "load_inputs"
  /\ UNCHANGED <<args, rows, match_mode, min_score, min_gap, wr, pr, runVars,
                 scored, winner, ranked, call>>

\* line 191 and the entry of the loop (line 200): the rows loaded; a
\* ValueError ends the run, no row leads to the writing of the tables
LoadInputs ==
  /\ pc = "load_inputs"
  /\ LET r == load_inputs(args)
     IN  IF r.kind = "raise"
         THEN rows' = rows /\ pc' = "aborted"
         ELSE rows' = r.rows
              /\ pc' = IF r.rows = <<>> THEN "write_master" ELSE "search"
  /\ UNCHANGED <<args, lang_map, match_mode, min_score, min_gap, wr, pr,
                 runVars, scored, winner, ranked, call>>

NextConfig ==
  \/ ParseLangMapArg
  \/ LoadInputs
  \/ Next

SpecConfig == InitConfig /\ [][NextConfig]_vars

\* the number of characters c in the string s
Count(s, c) == Cardinality({i \in 1..Len(s) : s[i] = c})

\* neither --input-names nor --input-csv is given
NoInputGiven == ~Truthy(args.input_names) /\ ~Truthy(args.input_csv)

\* --lang-map has a pair, between its commas, with no '=' or more than one
MalformedLangMap ==
  /\ Len(args.lang_map) > 0
  /\ \E i \in 1..Len(Split(args.lang_map, ",")) :
       Count(Split(args.lang_map, ",")[i], "=") # 1

\* C18: with no input source given, or with a pair of --lang-map that has
\* not exactly one '=', the run never leaves its start but to abort: no
\* search or lookup is issued, nothing is scored or recorded, and no table
\* is written.
C18_ConfigErrorIsFatal ==
  (NoInputGiven \/ MalformedLangMap) =>
    /\ pc \in {"lang_map", "load_inputs", "aborted"}
    /\ pc = "load_inputs" => ~MalformedLangMap
    /\ results = <<>> /\ looked = <<>> /\ failed = {}
    /\ candidates_by_id = <<>> /\ scored = <<>> /\ qi = 1
    /\ master_rows = <<>> /\ needs_review_rows = <<>> /\ cand_rows = <<>>
    /\ existing_track_ids = {}
    /\ written = {}

\* C18 witness: an input file is given and the second pair of --lang-map
\* has no '=': the run has aborted and nothing was called or written.
C18_Witness ==
  /\ pc = "aborted"
  /\ Truthy(args.input_names)
  /\ args.lang_map = <<"g", "b", "=", "e", ",", "j", "p">>
  /\ results = <<>>
  /\ written = {}

-----------------------------------------------------------------------------
(* SpecRank: pick_winner and the review queue's cut on lists with ties *)

RankTotals == {79, 88, 93}
RankMinGaps == {-1, 0, 8}

\* the i-th candidate discovered for the query, scored t
RankedEntry(i, t) ==
  <<ScoredEntry(i, t)[1] @@ [_countries |-> {"GB"}], t, ScoredEntry(i, t)[3]>>

InitRank ==
  /\ args = DefaultArgs
  /\ lang_map = ParseLangMap(args.lang_map).map
  /\ rows = SubSeq(AllRows, 1, 1)
  /\ \E n \in 0..MaxRanked : \E ts \in [1..n -> RankTotals] :
       scored = [i \in 1..n |-> RankedEntry(i, ts[i])]
  /\ min_score = 80
  /\ min_gap \in RankMinGaps
  /\ match_mode = DefaultModes
  /\ wr = <<>>
  /\ pr = <<>>
  /\ pc = "pick"
  /\ ci = 1
  /\ winner = NoWinner
  /\ ranked = <<>>
  /\ call = <<>>
  /\ IdleRun

NextRank ==
  \/ CallPickWinner
  \/ NoWinnerToReview

SpecRank == InitRank /\ [][NextRank]_vars

\* the smaller of two numbers
Min(a, b) == IF a < b THEN a ELSE b

\* entry a stands before entry b in the stable descending order of the
\* scored list, whose i-th entry has identifier i
Before(a, b) == a[2] > b[2] \/ (a[2] = b[2] /\ a[1].trackId < b[1].trackId)

\* C19: the ranking holds every scored entry once, in descending order of
\* total and, among equal totals, in the order of discovery; so a winner
\* confirmed with min_gap <= 0 is the earliest discovered of the entries
\* with the highest total, and the rows that go to review are the first
\* min(5, n) of that order: no entry left out stands before one taken.
C19_StableRanking ==
  /\ [](pc = "picked" =>
          /\ Len(ranked) = Len(scored)
          /\ \A i \in 1..Len(scored) : \E j \in 1..Len(ranked) : ranked[j] = scored[i]
          /\ \A i, j \in 1..Len(ranked) : i < j => Before(ranked[i], ranked[j])
          /\ (winner # NoWinner /\ min_gap <= 0) =>
               \A i \in 1..Len(scored) : scored[i] # winner => Before(winner, scored[i]))
  /\ [][(pc = "picked" /\ winner = NoWinner) =>
          LET new == needs_review_rows'
              taken == {new[i].trackId : i \in 1..Len(new)}
          IN  /\ Len(new) = Min(5, Len(scored))
              /\ \A i \in 1..Len(new) :
                   /\ new[i].score_total = scored[new[i].trackId][2]
                   /\ \A j \in (i + 1)..Len(new) :
                        Before(scored[new[i].trackId], scored[new[j].trackId])
                   /\ \A j \in 1..Len(scored) :
                        j \notin taken => Before(scored[new[i].trackId], scored[j])]_vars

\* C19 witness: six candidates, the fourth alone with the highest total and
\* the others tied below it within the margin: no winner, and the review
\* queue has the fourth, then the first, second, third and fifth; the sixth,
\* tied with them, is left out.
C19_Witness ==
  /\ pc = "write_master"
  /\ min_gap = 8
  /\ Len(needs_review_rows) = 5
  /\ [i \in 1..5 |-> needs_review_rows[i].trackId] = <<4, 1, 2, 3, 5>>
  /\ [i \in 1..5 |-> needs_review_rows[i].score_total] = <<93, 88, 88, 88, 88>>

-----------------------------------------------------------------------------
(* Claims about the resolver run, checked under Spec *)

\* the audit rows of the query with app_key key, as a scored list
AuditScored(key) ==
  LET Mine(r) == r.app_key = key
      a == SelectSeq(cand_rows, Mine)
  IN  [i \in 1..Len(a) |-> <<a[i], a[i]["total"], a[i]>>]

\* the identifier the decision policy picks for the finished query k
\* (0: no winner), recomputed from the audit table
DecidedId(k) ==
  LET r == pick_winner(AuditScored(rows[k].app_key), min_score, min_gap)
  IN  IF r[1] = NoWinner THEN 0 ELSE r[1][1].trackId

RowsOf(table, key) == {i \in 1..Len(table) : table[i].app_key = key}

\* C1: no identifier appears in more than one row of the confirmed table.
C1_NoIdentifierConfirmedTwice ==
  \A i \in 1..Len(master_rows), j \in 1..Len(master_rows) :
    i # j => master_rows[i].trackId # master_rows[j].trackId

\* C1 witness: the run is over, the first query's winner is confirmed and
\* the second query, whose winner is the same identifier, left no second row.
C1_Witness ==
  /\ pc = "done"
  /\ Len(master_rows) = 1
  /\ master_rows[1].app_key = rows[1].app_key
  /\ DecidedId(2) = master_rows[1].trackId

\* C2: when several finished queries have the same identifier as winner,
\* the confirmed table has exactly one row of that identifier, with the
\* app_key and query_name of the earliest of them, and every later one has
\* no row in the confirmed table and none in the review queue.
C2_DedupKeepsFirst ==
  \A k1 \in 1..(qi - 1), k2 \in 1..(qi - 1) :
    ( /\ k1 < k2
      /\ DecidedId(k1) # 0
      /\ DecidedId(k1) = DecidedId(k2)
      /\ \A k \in 1..(k1 - 1) : DecidedId(k) # DecidedId(k1) )
    => /\ \E i \in 1..Len(master_rows) :
            /\ master_rows[i].trackId = DecidedId(k1)
            /\ master_rows[i].app_key = rows[k1].app_key
            /\ master_rows[i].query_name = rows[k1].query_name
            /\ \A j \in 1..Len(master_rows) :
                 master_rows[j].trackId = DecidedId(k1) => j = i
       /\ RowsOf(master_rows, rows[k2].app_key) = {}
       /\ RowsOf(needs_review_rows, rows[k2].app_key) = {}

\* C2 witness: both queries of a finished run had the same winner.
C2_Witness ==
  /\ pc = "done"
  /\ DecidedId(1) # 0
  /\ DecidedId(1) = DecidedId(2)
  /\ rows[1].query_name # rows[2].query_name

\* a lookup outcome that is a record with a non-empty bundle id
HasBundle(out) ==
  /\ out.kind = "record"
  /\ out.rec.bundleId # None
  /\ out.rec.bundleId # <<>>

\* the record canonicalization is to use: that of the first lookup with a
\* bundle id, else the search-derived candidate
CanonicalOf(log, rec) ==
  IF \E k \in 1..Len(log) : HasBundle(log[k])
  THEN log[CHOOSE k \in 1..Len(log) :
             HasBundle(log[k]) /\ \A j \in 1..(k - 1) : ~HasBundle(log[j])].rec
  ELSE rec

\* the scored entry of the winner, as score_candidate produced it
ScoredOfWinner == scored[CHOOSE i \in 1..Len(scored) : scored[i][1] = winner[1]]

\* C9: lookups go through the countries in configured order and stop at
\* the first record with a bundle id; the emitted row takes its catalog
\* fields from that record, or from the search-derived candidate when no
\* lookup qualifies, and its score_total and breakdown from the scoring.
C9_CanonicalizationOrder ==
  /\ [](pc \in {"lookup", "sleep_lookup", "emit"} =>
          /\ Len(looked) <= Len(countries)
          /\ \A k \in 1..Len(looked) :
               /\ looked[k] \in LookupOutcomes(winner[1].trackId, countries[k])
               /\ k < Len(looked) => ~HasBundle(looked[k]))
  /\ [](pc = "emit" =>
          \/ Len(looked) = Len(countries)
          \/ (looked # <<>> /\ HasBundle(looked[Len(looked)])))
  /\ [][pc = "emit" =>
          LET can == CanonicalOf(looked, winner[1])
              e == ScoredOfWinner
          IN  master_rows' = Append(master_rows,
                [app_key |-> rows[qi].app_key,
                 query_name |-> rows[qi].query_name,
                 trackId |-> can.trackId,
                 bundleId |-> can.bundleId,
                 trackName |-> can.trackName,
                 sellerName |-> IF Truthy(can.sellerName) THEN can.sellerName
                                ELSE can.artistName,
                 primaryGenreName |-> can.primaryGenreName,
                 countries_found |-> winner[1]._countries,
                 score_total |-> e[2],
                 score_breakdown |-> e[3]])]_vars

\* C9 witness: the first country's lookup returned a record without bundle
\* id, the second country's a record with one, which is the final record.
C9_Witness ==
  /\ pc = "emit"
  /\ Len(looked) = 2
  /\ looked[1].kind = "record"
  /\ HasBundle(looked[2])
  /\ final = looked[2].rec
  /\ final.trackName # winner[1].trackName

\* every hit that this query's searches returned so far, in the order the
\* aggregation loop visits them
RECURSIVE HitsSoFar(_)
HitsSoFar(res) ==
  IF res = <<>> THEN <<>>
  ELSE HitsSoFar(SubSeq(res, 1, Len(res) - 1)) \o res[Len(res)]

FirstHitOf(tid) ==
  LET hits == HitsSoFar(results)
  IN  hits[CHOOSE i \in 1..Len(hits) :
             hits[i].trackId = tid /\ \A j \in 1..(i - 1) : hits[j].trackId # tid]

CandFields == {"trackId", "trackName", "sellerName", "artistName", "bundleId",
               "primaryGenreName", "genres"}

\* C10: every candidate carries the fields of the first hit of its
\* identifier (first country in configured order, first in that country's
\* list), and one country's search step leaves every existing candidate in
\* place, changing nothing of it but adding the country to _countries.
C10_FirstSeenWins ==
  /\ [](\A i \in 1..Len(candidates_by_id) :
          /\ \E j \in 1..Len(HitsSoFar(results)) :
               HitsSoFar(results)[j].trackId = candidates_by_id[i].trackId
          /\ [f \in CandFields |-> candidates_by_id[i][f]]
               = FirstHitOf(candidates_by_id[i].trackId))
  /\ [][pc = "search" =>
          \A i \in 1..Len(candidates_by_id) :
            /\ i <= Len(candidates_by_id')
            /\ [f \in CandFields |-> candidates_by_id'[i][f]]
                 = [f \in CandFields |-> candidates_by_id[i][f]]
            /\ candidates_by_id[i]._countries \subseteq candidates_by_id'[i]._countries
            /\ candidates_by_id'[i]._countries \subseteq
                 candidates_by_id[i]._countries \cup {upper[countries[ci]]}]_vars

\* C10 witness: identifier 1 was first returned by gb with its jp
\* description and later by jp, twice, with another description: the
\* candidate has the first description and both countries.
C10_Witness ==
  /\ Len(results) = 2
  /\ results[1] = <<Hit1jp, Hit2>>
  /\ results[2] = <<Hit0, Hit2, Hit1gb, Hit1jp>>
  /\ Len(candidates_by_id) = 2
  /\ candidates_by_id[1].trackName = Hit1jp.trackName
  /\ candidates_by_id[1].trackName # Hit1gb.trackName
  /\ candidates_by_id[1]._countries = {"GB", "JP"}

\* the countries, upper-cased, whose search of this query returned a hit
\* with identifier tid
CountriesReturning(tid) ==
  {upper[countries[k]] : k \in {j \in 1..Len(results) :
                                  \E h \in 1..Len(results[j]) :
                                    results[j][h].trackId = tid}}

\* the identifiers that this query's searches returned so far; 0 stands for
\* a hit without identifier
ReturnedIds ==
  {HitsSoFar(results)[j].trackId : j \in 1..Len(HitsSoFar(results))} \ {0}

\* C11: the aggregated candidates are exactly one per distinct identifier
\* that any country's search of the query returned, a hit without identifier
\* gives no candidate, and the found-in set of a candidate is exactly the
\* set of upper-cased countries whose search returned its identifier.
C11_OneCandidatePerIdentifier ==
  /\ {candidates_by_id[i].trackId : i \in 1..Len(candidates_by_id)} = ReturnedIds
  /\ \A i, j \in 1..Len(candidates_by_id) :
       candidates_by_id[i].trackId = candidates_by_id[j].trackId => i = j
  /\ \A i \in 1..Len(candidates_by_id) :
       candidates_by_id[i]._countries
         = CountriesReturning(candidates_by_id[i].trackId)

\* C11 witness: both countries were searched; a hit without identifier was
\* among the results; one identifier came from both countries and another
\* from one country only.
C11_Witness ==
  /\ Len(results) = 2
  /\ \E j \in 1..Len(HitsSoFar(results)) : HitsSoFar(results)[j].trackId = 0
  /\ \E i, j \in 1..Len(candidates_by_id) :
       /\ candidates_by_id[i]._countries = {"GB", "JP"}
       /\ candidates_by_id[j]._countries = {"JP"}

\* the run is at a position of main whose step can be taken: the loops'
\* index variables are in range and the confirmed row has its winner
StepReady ==
  /\ pc \in {"search", "sleep_search", "scoring", "pick", "picked", "lookup",
             "sleep_lookup", "emit", "write_master", "write_review",
             "write_audit"}
  /\ pc \in {"search", "sleep_search", "scoring", "pick", "picked", "lookup",
             "sleep_lookup", "emit"} => qi <= Len(rows)
  /\ pc \in {"search", "lookup"} => ci <= Len(countries)
  /\ pc \in {"lookup", "sleep_lookup", "emit"} => winner # NoWinner

\* C12: whatever searches and lookups raise, the run is not aborted by
\* them: a search that raised counts as an empty result of its country
\* only (the other countries' hits are aggregated and all scored), a
\* lookup that raised counts as no record, every state short of the end has
\* a next step, and the end is reached with every row gone through.
C12_FailureIsolation ==
  /\ pc = "aborted" => qi > Len(rows)
  /\ \A k \in failed : k <= Len(results) /\ results[k] = <<>>
  /\ {candidates_by_id[i].trackId : i \in 1..Len(candidates_by_id)} = ReturnedIds
  /\ pc \in {"pick", "picked", "lookup", "sleep_lookup", "emit"} =>
       /\ Len(results) = Len(countries)
       /\ Len(scored) = Len(candidates_by_id)
       /\ \A i \in 1..Len(scored) : scored[i][1] = candidates_by_id[i]
  /\ (pc = "emit" /\ \A k \in 1..Len(looked) : looked[k].kind = "raise") =>
       final = winner[1]
  /\ pc \notin {"done", "aborted"} => StepReady
  /\ pc \in {"write_master", "write_review", "write_audit", "done"} =>
       qi = Len(rows) + 1

\* C12 witness: in the last query the first country's search raised, the
\* second country's hits gave the confirmed winner, and both lookups raised:
\* the row is emitted from the winner's search record.
C12_Witness ==
  /\ qi = Len(rows)
  /\ pc = "emit"
  /\ failed = {1}
  /\ Len(looked) = Len(countries)
  /\ \A k \in 1..Len(looked) : looked[k].kind = "raise"
  /\ final = winner[1]
  /\ winner[1]._countries = {"JP"}

\* s is the beginning of t
IsPrefix(s, t) == Len(s) <= Len(t) /\ SubSeq(t, 1, Len(s)) = s

\* the positions of main after the scoring loop of the current query
AfterScoring == {"pick", "picked", "lookup", "sleep_lookup", "emit"}

\* C13: from the end of a query's scoring loop on, the audit table holds
\* exactly one row for each aggregated candidate of that query, in discovery
\* order and with its total, whatever the decision on the query turns out
\* to be; no step removes or changes an audit row; and a query is left only
\* after its scoring loop.  So at the end of the run the table has one row
\* for every (query, candidate) pair.
C13_AuditCompleteness ==
  /\ [](pc \in AfterScoring =>
          LET mine == AuditScored(rows[qi].app_key)
          IN  /\ Len(mine) = Len(candidates_by_id)
              /\ \A i \in 1..Len(mine) :
                   /\ mine[i][1].trackId = candidates_by_id[i].trackId
                   /\ mine[i][1].countries_found = candidates_by_id[i]._countries
                   /\ mine[i][2] = scored[i][2]
              /\ SubSeq(cand_rows, Len(cand_rows) - Len(mine) + 1, Len(cand_rows))
                   = [i \in 1..Len(mine) |-> mine[i][1]])
  /\ [][IsPrefix(cand_rows, cand_rows')]_vars
  /\ [][qi' # qi => pc \in AfterScoring /\ cand_rows' = cand_rows]_vars

\* C13 witness: at the end of the run the first query, left ambiguous with
\* six candidates (one of them below the five that went to review), and the
\* second query, confirmed, have all their candidates in the audit table.
C13_Witness ==
  /\ pc = "done"
  /\ Cardinality(RowsOf(cand_rows, rows[1].app_key)) = 6
  /\ Cardinality(RowsOf(needs_review_rows, rows[1].app_key)) = 5
  /\ Cardinality(RowsOf(master_rows, rows[2].app_key)) = 1
  /\ Cardinality(RowsOf(cand_rows, rows[2].app_key)) = 6

\* the total that the scoring loop gave the candidate with identifier tid
TotalOf(tid) ==
  scored[CHOOSE i \in 1..Len(scored) : scored[i][1].trackId = tid][2]

\* C14: a query for which pick_winner returns no winner (Ambiguous or
\* NoMatch) adds min(5, number of candidates) rows to the review queue: rows
\* of distinct candidates of that query with their totals, in descending
\* order of total, and no candidate left out has a higher total than one
\* taken.  Nothing else adds review rows, so no query has more than five.
C14_ReviewTopFive ==
  /\ [][(pc = "picked" /\ winner = NoWinner) =>
          LET n == Len(needs_review_rows)
              m == Min(5, Len(candidates_by_id))
              new == SubSeq(needs_review_rows', n + 1, Len(needs_review_rows'))
              taken == {new[i].trackId : i \in 1..Len(new)}
          IN  /\ IsPrefix(needs_review_rows, needs_review_rows')
              /\ Len(new) = m
              /\ \A i \in 1..m :
                   /\ new[i].app_key = rows[qi].app_key
                   /\ \E j \in 1..Len(scored) : scored[j][1].trackId = new[i].trackId
                   /\ new[i].score_total = TotalOf(new[i].trackId)
                   /\ \A j \in 1..m : new[i].trackId = new[j].trackId => i = j
                   /\ \A j \in (i + 1)..m : new[i].score_total >= new[j].score_total
                   /\ \A j \in 1..Len(scored) :
                        scored[j][1].trackId \notin taken =>
                          scored[j][2] <= new[i].score_total]_vars
  /\ [][needs_review_rows' # needs_review_rows =>
          pc = "picked" /\ winner = NoWinner]_vars
  /\ [](\A k \in 1..Len(rows) :
          Cardinality(RowsOf(needs_review_rows, rows[k].app_key)) <= 5)

\* C14 witness: the second query is being searched; the first one had six
\* candidates and no winner, and five of them are in the review queue, the
\* one with the lowest total is not.
C14_Witness ==
  /\ qi = 2
  /\ pc = "search"
  /\ Len(AuditScored(rows[1].app_key)) = 6
  /\ Len(needs_review_rows) = 5
  /\ \E i \in 1..6 :
       LET a == AuditScored(rows[1].app_key)
       IN  /\ \A j \in 1..5 : needs_review_rows[j].trackId # a[i][1].trackId
           /\ \A j \in 1..5 : needs_review_rows[j].score_total > a[i][2]

-----------------------------------------------------------------------------
(* The breakdown's entries, checked under SpecScore *)

SignalNames == {"exact", "startswith", "contains", "fuzzy", "dev_bonus",
                "bundle_bonus", "genre_bonus", "total"}

\* C15 as stated, taken for the default configuration of modes alone
\* (startswith, contains, fuzzy): every breakdown has an entry for each of
\* the eight signal names.
C15_EverySignalHasEntry ==
  match_mode = {"startswith", "contains", "fuzzy"} =>
    \A i \in 1..Len(scored) : SignalNames \subseteq DOMAIN scored[i][3]

\* C15, amended: the breakdown has an entry for each enabled mode and for
\* dev_bonus, bundle_bonus, genre_bonus and total, and for no disabled mode;
\* the entry of an enabled exact, startswith or contains mode is 0 when its
\* test does not hold, and a bonus that was not awarded is present as 0.
C15_EnabledSignalsHaveEntries ==
  \A i \in 1..Len(scored) :
    LET e == scored[i]
        d == e[3]
    IN  /\ DOMAIN d = (match_mode \cap {"exact", "startswith", "contains", "fuzzy"})
                        \cup {"dev_bonus", "bundle_bonus", "genre_bonus", "total"}
        /\ "exact" \in match_mode => d["exact"] = IF ExactHolds(e) THEN 100 ELSE 0
        /\ "startswith" \in match_mode =>
             d["startswith"] = IF StartsHolds(e) THEN 92 ELSE 0
        /\ "contains" \in match_mode =>
             d["contains"] = IF ContainsHolds(e) THEN 88 ELSE 0
        /\ "fuzzy" \in match_mode => d["fuzzy"] = FuzzyOf(e)
        /\ d["dev_bonus"] \in {0, 4, 8}
        /\ ~Truthy(call.developer_hint) => d["dev_bonus"] = 0
        /\ d["bundle_bonus"] \in {0, 12, 25}
        /\ ~Truthy(call.bundle_hint) => d["bundle_bonus"] = 0
        /\ d["genre_bonus"] \in {0, 3}
        /\ d["total"] = e[2]

\* C15 witness: under the default modes a candidate whose name matches in
\* no way is scored: startswith, contains and the bonuses are entries with
\* value 0, and exact, which is disabled, has no entry.
C15_Witness ==
  /\ match_mode = {"startswith", "contains", "fuzzy"}
  /\ \E i \in 1..Len(scored) :
       LET d == scored[i][3]
       IN  /\ "exact" \notin DOMAIN d
           /\ d["startswith"] = 0
           /\ d["contains"] = 0
           /\ d["dev_bonus"] = 0
           /\ d["bundle_bonus"] = 0
           /\ d["genre_bonus"] = 0

OutputTables == {"apps_master.csv", "needs_review.csv", "candidates_raw.csv"}

\* C17 as stated, taken for the states in which the run has ended (the
\* states between two writes are left out of it): no table is written
\* before the last query is done with, and a run that has ended, by
\* finishing or by a failure, has written all three tables or none.
C17_AllTablesOrNone ==
  /\ written # {} => qi > Len(rows)
  /\ pc \in {"done", "aborted"} => written \in {{}, OutputTables}

\* the current query is finished: its row is being emitted, or it has no
\* winner, or its winner is in the ledger already
QueryIsDone ==
  \/ pc = "emit"
  \/ pc = "picked" /\ (winner = NoWinner \/ winner[1].trackId \in existing_track_ids)

\* t is s with one more row, a row of the current query
OneRowOfCurrentQuery(s, t) ==
  /\ Len(t) = Len(s) + 1
  /\ IsPrefix(s, t)
  /\ t[Len(t)].app_key = rows[qi].app_key

\* C20: the loop goes from a query to the next one only, and only in the
\* step that finishes the query (its row emitted, or the query sent to
\* review or dropped), at which point nothing of the next query has been
\* searched, scored or looked up; the ledger changes only in a step of the
\* current query that both finds the winner's identifier missing and adds
\* it; and a confirmed row is added only as the row of the current query.
C20_SequentialQueries ==
  /\ [][qi' # qi =>
          /\ qi' = qi + 1
          /\ QueryIsDone
          /\ results' = <<>> /\ candidates_by_id' = <<>> /\ scored' = <<>>
          /\ winner' = NoWinner /\ looked' = <<>>
          /\ existing_track_ids' = existing_track_ids]_vars
  /\ [][existing_track_ids' # existing_track_ids =>
          /\ qi' = qi
          /\ pc = "picked"
          /\ winner # NoWinner
          /\ winner[1].trackId \notin existing_track_ids
          /\ existing_track_ids' = existing_track_ids \cup {winner[1].trackId}]_vars
  /\ [][master_rows' # master_rows =>
          /\ pc = "emit"
          /\ OneRowOfCurrentQuery(master_rows, master_rows')
          /\ master_rows'[Len(master_rows')].trackId \in existing_track_ids]_vars
  /\ [](pc \in {"search", "sleep_search", "scoring", "pick"} /\ qi <= Len(rows) =>
          /\ Len(master_rows) < qi
          /\ Cardinality(existing_track_ids) = Len(master_rows))

\* C20 witness: the second query's decision is made and its winner is the
\* identifier that the first query put into the ledger; the first query's
\* row is in the confirmed table already, so the check that follows finds
\* the identifier.
C20_Witness ==
  /\ qi = 2
  /\ pc = "picked"
  /\ winner # NoWinner
  /\ existing_track_ids = {winner[1].trackId}
  /\ Len(master_rows) = 1
  /\ master_rows[1].app_key = rows[1].app_key
  /\ master_rows[1].trackId = winner[1].trackId

\* the positions of main between a search call and the next
SearchPositions == {"search", "sleep_search"}

\* the positions of main in the lookup loop and at the row's emission
LookupPositions == {"lookup", "sleep_lookup", "emit"}

\* C21: the k-th search of a query is the search of the k-th configured
\* country, issued whatever the earlier ones gave, and when the query is
\* scored every country has been searched once; a lookup is issued only in
\* the lookup loop of a query with a winner whose identifier this query put
\* into the ledger (no confirmed row has it), the k-th lookup is that of
\* the k-th country, and none follows a lookup that gave a record with a
\* bundle id.
C21_CallsPerCountry ==
  /\ [](/\ \A k \in 1..Len(results) :
             results[k] \in SearchResults(countries[k]) \cup {<<>>}
        /\ pc = "search" /\ qi <= Len(rows) => Len(results) = ci - 1
        /\ pc = "sleep_search" => Len(results) = ci
        /\ pc \in AfterScoring \cup {"scoring"} => Len(results) = Len(countries)
        /\ pc \notin LookupPositions => looked = <<>>
        /\ pc = "lookup" => Len(looked) = ci - 1
        /\ pc = "sleep_lookup" => Len(looked) = ci
        /\ Len(looked) <= Len(countries))
  /\ [][results' # results /\ results' # <<>> =>
          /\ pc = "search"
          /\ Len(results') = ci
          /\ SubSeq(results', 1, ci - 1) = results]_vars
  /\ [][looked' # looked /\ looked' # <<>> =>
          /\ pc = "lookup"
          /\ winner # NoWinner
          /\ winner[1].trackId \in existing_track_ids
          /\ \A i \in 1..Len(master_rows) : master_rows[i].trackId # winner[1].trackId
          /\ Len(looked') = ci
          /\ SubSeq(looked', 1, ci - 1) = looked
          /\ looked'[ci] \in LookupOutcomes(winner[1].trackId, countries[ci])
          /\ \A k \in 1..Len(looked) : ~HasBundle(looked[k])]_vars

\* C21 witness: the first country's search raised and the second country
\* was searched all the same; its hit was confirmed, the first country's
\* lookup gave a record with a bundle id, and the row is emitted without a
\* lookup in the second country.
C21_Witness ==
  /\ pc = "emit"
  /\ failed = {1}
  /\ Len(results) = 2
  /\ results[2] # <<>>
  /\ Len(looked) = 1
  /\ HasBundle(looked[1])

-----------------------------------------------------------------------------
(* The bonus tiers, checked under SpecScore *)

\* the seller name a scored entry's candidate is compared by
SellerNameOf(e) ==
  IF Truthy(e[1].sellerName) THEN e[1].sellerName
  ELSE IF Truthy(e[1].artistName) THEN e[1].artistName ELSE <<>>

\* C22: for a given bundle hint the bundle bonus is 25 when the normalized
\* hint equals the normalized bundle id, else 12 when it is a substring of
\* it, else 0; for a given developer hint the developer bonus is 8 when the
\* normalized hint is a substring of the normalized seller name, else 4
\* when the partial ratio is at least 80, else 0; the genre bonus is 3 when
\* the primary genre or a genre of the candidate is a priority genre, else
\* 0; a hint that is not given earns 0; and the total is at most 136.
C22_BonusTiers ==
  \A i \in 1..Len(scored) :
    LET e == scored[i]
        d == e[3]
        bh == norm(call.bundle_hint)
        b == norm(e[1].bundleId)
        dh == norm(call.developer_hint)
        sl == norm(SellerNameOf(e))
    IN  /\ d["bundle_bonus"] =
             IF ~Truthy(call.bundle_hint) THEN 0
             ELSE IF bh = b THEN 25
             ELSE IF contains(bh, b) THEN 12 ELSE 0
        /\ d["dev_bonus"] =
             IF ~Truthy(call.developer_hint) THEN 0
             ELSE IF contains(dh, sl) THEN 8
             ELSE IF pr[<<call.developer_hint, SellerNameOf(e)>>] >= 80 THEN 4 ELSE 0
        /\ d["genre_bonus"] =
             IF e[1].primaryGenreName \in {"Health & Fitness", "Medical"}
                \/ e[1].genres \cap {"Health & Fitness", "Medical"} # {}
             THEN 3 ELSE 0
        /\ d["dev_bonus"] \in {0, 4, 8}
        /\ d["bundle_bonus"] \in {0, 12, 25}
        /\ d["genre_bonus"] \in {0, 3}
        /\ e[2] <= 136
        /\ e[2] - NameScoreOf(e) <= 36

\* C22 witness: one candidate has the exact bundle tier, the substring
\* developer tier and the genre bonus at once (36 in bonuses), and another
\* of the same call has the substring bundle tier.
C22_Witness ==
  /\ Len(scored) = 2
  /\ \E i, j \in 1..2 :
       /\ scored[i][3]["bundle_bonus"] = 25
       /\ scored[i][3]["dev_bonus"] = 8
       /\ scored[i][3]["genre_bonus"] = 3
       /\ scored[j][3]["bundle_bonus"] = 12

-----------------------------------------------------------------------------
(* The pacing of the external calls, checked under Spec *)

\* C23 as stated: whenever the run is about to issue a search or a lookup
\* call, a sleep has run since the previous search or lookup call (or no
\* call was issued yet).
C23_SleepBetweenCalls ==
  (pc \in {"search", "lookup"} /\ qi <= Len(rows)) => paced

-----------------------------------------------------------------------------
(* The ledger and the confirmed table, checked under Spec *)

\* the identifiers of the confirmed rows
ConfirmedIds == {master_rows[i].trackId : i \in 1..Len(master_rows)}

\* the run is between two queries: before the first search of a row, or
\* past the last row
AtQueryBoundary ==
  \/ pc = "search" /\ ci = 1
  \/ pc \in {"write_master", "write_review", "write_audit", "done", "aborted"}

\* C24: between two queries the ledger is exactly the set of identifiers
\* of the confirmed rows, one row each; no step takes an identifier out of
\* the ledger; during the lookups of a query its winner's identifier is in
\* the ledger already, as the one identifier without a row; and the row of
\* that identifier is emitted whatever the lookups gave, also when each of
\* them raised.
C24_LedgerMatchesRows ==
  /\ [](AtQueryBoundary =>
          /\ existing_track_ids = ConfirmedIds
          /\ Cardinality(existing_track_ids) = Len(master_rows))
  /\ [][existing_track_ids \subseteq existing_track_ids']_vars
  /\ [](pc \in LookupPositions =>
          /\ winner[1].trackId \notin ConfirmedIds
          /\ existing_track_ids = ConfirmedIds \cup {winner[1].trackId})
  /\ [][pc = "emit" =>
          /\ Len(master_rows') = Len(master_rows) + 1
          /\ IsPrefix(master_rows, master_rows')
          /\ master_rows'[Len(master_rows')].trackId = winner[1].trackId
          /\ existing_track_ids' = existing_track_ids]_vars

\* C24 witness: the second query is about to be searched; no lookup of the
\* first query gave a record to take (the lookup loop ran to its last
\* sleep), and its winner's identifier, the one entry of the ledger, has
\* its row, made of the search record.
C24_Witness ==
  /\ qi = 2
  /\ pc = "search"
  /\ ci = 1
  /\ paced
  /\ Len(master_rows) = 1
  /\ existing_track_ids = {master_rows[1].trackId}
  /\ master_rows[1].trackName = Hit1gb.trackName

-----------------------------------------------------------------------------
(* What a query without a confirmed row leaves alone, checked under Spec *)

\* the step leaves the current query for the next row, with no lookup
EndsQueryHere ==
  /\ qi' = qi + 1
  /\ pc' \notin LookupPositions
  /\ looked = <<>>

\* C25: the step of a query that has no winner (Ambiguous or NoMatch)
\* leaves the ledger and the confirmed table as they are and ends the
\* query with no lookup issued; the step of a query whose winner is in the
\* ledger already leaves the ledger, the confirmed table and the review
\* queue as they are and ends the query with no lookup issued; and every
\* step that adds rows to the confirmed table or to the review queue adds
\* to one of the two only and ends the query, so no query has rows in
\* both.
C25_UnconfirmedQueryFrame ==
  /\ [][(pc = "picked" /\ winner = NoWinner) =>
          /\ existing_track_ids' = existing_track_ids
          /\ master_rows' = master_rows
          /\ EndsQueryHere]_vars
  /\ [][(pc = "picked" /\ winner # NoWinner
                       /\ winner[1].trackId \in existing_track_ids) =>
          /\ existing_track_ids' = existing_track_ids
          /\ master_rows' = master_rows
          /\ needs_review_rows' = needs_review_rows
          /\ EndsQueryHere]_vars
  /\ [][(master_rows' # master_rows \/ needs_review_rows' # needs_review_rows) =>
          /\ qi' = qi + 1
          /\ master_rows' = master_rows \/ needs_review_rows' = needs_review_rows]_vars

\* C25 witness: the first query had no winner and its review rows list an
\* identifier, the ledger staying empty; the second query has confirmed
\* that identifier.
C25_Witness ==
  /\ qi = 3
  /\ Len(master_rows) = 1
  /\ master_rows[1].app_key = rows[2].app_key
  /\ existing_track_ids = {master_rows[1].trackId}
  /\ \E i \in 1..Len(needs_review_rows) :
        /\ needs_review_rows[i].app_key = rows[1].app_key
        /\ needs_review_rows[i].trackId = master_rows[1].trackId

-----------------------------------------------------------------------------
(* Hints and names that are empty once normalized, checked under SpecScore *)

\* the normalized query name and aliases of the call that are not empty
NonEmptyPatterns ==
  {p \in {norm(call.qname)} \cup
         {norm(call.aliases[i]) : i \in 1..Len(call.aliases)} : p # <<>>}

\* C26 as stated: a developer hint that is absent, empty or empty once
\* normalized earns dev_bonus 0 for every candidate, a bundle hint of that
\* kind earns bundle_bonus 0 for every candidate, and the startswith and
\* contains signals fire for a candidate only on a query name or alias
\* that is not empty once normalized.
C26_NoAwardOnEmptyHint ==
  \A i \in 1..Len(scored) :
    LET d == scored[i][3]
        tn == norm(OrEmpty(scored[i][1].trackName))
    IN  /\ norm(call.developer_hint) = <<>> => d["dev_bonus"] = 0
        /\ norm(call.bundle_hint) = <<>> => d["bundle_bonus"] = 0
        /\ ("startswith" \in DOMAIN d /\ d["startswith"] = 92) =>
              \E p \in NonEmptyPatterns : startswith(tn, p)
        /\ ("contains" \in DOMAIN d /\ d["contains"] = 88) =>
              \E p \in NonEmptyPatterns : contains(p, tn)

====
